---- MODULE Spec2Model ----
(***************************************************************************)
(* Model of ormar's field factory (ormar/fields/model_fields.py) and of    *)
(* the relation query-set proxy (ormar/relations/querysetproxy.py).        *)
(*                                                                         *)
(* Python values are encoded as records [tag, a, b] so that values of      *)
(* different Python types can be compared with each other.                 *)
(***************************************************************************)
EXTENDS Integers, FiniteSets, Sequences, TLC

\* ------------------------------------------------------------------------
\* Bounds
\* ------------------------------------------------------------------------
\* largest max_length / precision / scale tried by the field constructors
MaxLen == 1
MaxPrec == 0

\* ------------------------------------------------------------------------
\* Python values
\* ------------------------------------------------------------------------
V(tag, a, b) == [tag |-> tag, a |-> a, b |-> b]
None == V("none", 0, 0)
PyTrue == V("bool", 1, 0)
PyFalse == V("bool", 0, 0)
PyBool(b) == IF b THEN PyTrue ELSE PyFalse
PyInt(n) == V("int", n, 0)
PyStr(n) == V("str", n, 0)
\* a keyword the caller did not pass
Absent == V("absent", 0, 0)

\* kwargs.get(key, default)
Get(kwargs, key, default) == IF key \in DOMAIN kwargs THEN kwargs[key] ELSE default
\* what is left of kwargs after kwargs.pop(key, ...)
Without(kwargs, keys) == [k \in (DOMAIN kwargs) \ keys |-> kwargs[k]]
\* {**kwargs, **locals}
Merge(kwargs, locals) ==
  [k \in (DOMAIN kwargs) \cup (DOMAIN locals) |->
      IF k \in DOMAIN locals THEN locals[k] ELSE kwargs[k]]
\* binding of keyword-only parameters: the named ones (with their defaults)
\* become locals, the others stay in **kwargs
BindNamed(kwargs, defaults) ==
  [k \in DOMAIN defaults |-> Get(kwargs, k, defaults[k])]
BindRest(kwargs, defaults) == Without(kwargs, DOMAIN defaults)

\* ------------------------------------------------------------------------
\* ormar/fields/model_fields.py
\* ------------------------------------------------------------------------
Kinds == {"String", "Integer", "Text", "Float", "Boolean", "DateTime",
          "Date", "Time", "JSON", "BigInteger", "Decimal"}

\* Python truthiness of a value
Truthy(v) == v.tag # "none" /\ v.a # 0

\* mutant: `default or server_default` instead of the `is not None` tests
is_field_nullable_truthy(nullable, default, server_default) ==
  IF nullable = None
    THEN PyBool(Truthy(default) \/ Truthy(server_default))
    ELSE nullable

is_field_nullable(nullable, default, server_default) ==
  IF nullable = None
    THEN PyBool(default # None \/ server_default # None)
    ELSE nullable

\* mutant: `max_length < 0` instead of `max_length <= 0`
String_validate_strict(kwargs) ==
  LET max_length == Get(kwargs, "max_length", None)
  IN  max_length = None \/ max_length.a < 0

String_validate(kwargs) ==
  LET max_length == Get(kwargs, "max_length", None)
  IN  max_length = None \/ max_length.a <= 0

Decimal_validate(kwargs) ==
  LET precision == Get(kwargs, "precision", None)
      scale == Get(kwargs, "scale", None)
  IN  precision = None \/ precision.a < 0 \/ scale = None \/ scale.a < 0

\* cls.validate(**kwargs): TRUE iff ModelDefinitionError is raised
validate(cls, kwargs) ==
  CASE cls = "String" -> String_validate(kwargs)
    [] cls = "Decimal" -> Decimal_validate(kwargs)
    [] OTHER -> FALSE

get_column_type(cls, kwargs) ==
  CASE cls = "String" -> V("sqlalchemy.String", Get(kwargs, "max_length", None).a, 0)
    [] cls = "Decimal" -> V("sqlalchemy.DECIMAL", Get(kwargs, "precision", None).a,
                                                  Get(kwargs, "scale", None).a)
    [] cls = "Integer" -> V("sqlalchemy.Integer", 0, 0)
    [] cls = "BigInteger" -> V("sqlalchemy.BigInteger", 0, 0)
    [] cls = "Text" -> V("sqlalchemy.Text", 0, 0)
    [] cls = "Float" -> V("sqlalchemy.Float", 0, 0)
    [] cls = "Boolean" -> V("sqlalchemy.Boolean", 0, 0)
    [] cls = "DateTime" -> V("sqlalchemy.DateTime", 0, 0)
    [] cls = "Date" -> V("sqlalchemy.Date", 0, 0)
    [] cls = "Time" -> V("sqlalchemy.Time", 0, 0)
    [] OTHER -> V("sqlalchemy.JSON", 0, 0)

Popped == {"default", "server_default", "nullable", "name", "primary_key",
           "index", "unique", "pydantic_only", "autoincrement"}

NoDescriptor == [k \in {} |-> None]

\* the outcome of a constructor call: the error raised, or the namespace of
\* the descriptor type that was built
Raised(err) == [raised |-> err, built |-> FALSE, namespace |-> NoDescriptor]
Built(ns) == [raised |-> "none", built |-> TRUE, namespace |-> ns]

ModelFieldFactory_new(cls, kwargs) ==
  IF validate(cls, kwargs)
    THEN Raised("ModelDefinitionError")
    ELSE
      LET default == Get(kwargs, "default", None)
          server_default == Get(kwargs, "server_default", None)
          nullable == Get(kwargs, "nullable", None)
          rest == Without(kwargs, Popped)
          fixed == [ name |-> Get(kwargs, "name", None),
                     primary_key |-> Get(kwargs, "primary_key", PyFalse),
                     default |-> default,
                     server_default |-> server_default,
                     nullable |-> is_field_nullable(nullable, default, server_default),
                     index |-> Get(kwargs, "index", PyFalse),
                     unique |-> Get(kwargs, "unique", PyFalse),
                     pydantic_only |-> Get(kwargs, "pydantic_only", PyFalse),
                     autoincrement |-> Get(kwargs, "autoincrement", PyFalse),
                     column_type |-> get_column_type(cls, rest) ]
      IN  Built(Merge(rest, fixed))

StringDefaults ==
  [ allow_blank |-> PyFalse, strip_whitespace |-> PyFalse, min_length |-> None,
    max_length |-> None, curtail_length |-> None, regex |-> None ]

String_new(cls, kwargs) ==
  ModelFieldFactory_new(cls,
      Merge(BindRest(kwargs, StringDefaults), BindNamed(kwargs, StringDefaults)))

IntegerDefaults == [ minimum |-> None, maximum |-> None, multiple_of |-> None ]

\* mutant: autoincrement is not defaulted from primary_key
Integer_new_plain(cls, kwargs) ==
  ModelFieldFactory_new(cls,
      Merge(BindRest(kwargs, IntegerDefaults), BindNamed(kwargs, IntegerDefaults)))

Integer_new(cls, kwargs) ==
  LET named == BindNamed(kwargs, IntegerDefaults)
      rest0 == BindRest(kwargs, IntegerDefaults)
      popped == Get(rest0, "autoincrement", None)
      rest == Without(rest0, {"autoincrement"})
      autoincrement == IF popped # None THEN popped
                       ELSE Get(rest, "primary_key", PyFalse)
      locals == Merge(named, [autoincrement |-> autoincrement])
  IN  ModelFieldFactory_new(cls, Merge(rest, locals))

TextDefaults == [ allow_blank |-> PyFalse, strip_whitespace |-> PyFalse ]

Text_new(cls, kwargs) ==
  ModelFieldFactory_new(cls,
      Merge(BindRest(kwargs, TextDefaults), BindNamed(kwargs, TextDefaults)))

FloatDefaults == [ minimum |-> None, maximum |-> None, multiple_of |-> None ]

Float_new(cls, kwargs) ==
  ModelFieldFactory_new(cls,
      Merge(BindRest(kwargs, FloatDefaults), BindNamed(kwargs, FloatDefaults)))

DecimalDefaults ==
  [ minimum |-> None, maximum |-> None, multiple_of |-> None, precision |-> None,
    scale |-> None, max_digits |-> None, decimal_places |-> None ]

Decimal_new(cls, kwargs) ==
  ModelFieldFactory_new(cls,
      Merge(BindRest(kwargs, DecimalDefaults), BindNamed(kwargs, DecimalDefaults)))

\* Kind(**kwargs): Python's lookup of __new__ along the class hierarchy
New(cls, kwargs) ==
  CASE cls = "String" -> String_new(cls, kwargs)
    [] cls \in {"Integer", "BigInteger"} -> Integer_new(cls, kwargs)
    [] cls = "Text" -> Text_new(cls, kwargs)
    [] cls = "Float" -> Float_new(cls, kwargs)
    [] cls = "Decimal" -> Decimal_new(cls, kwargs)
    [] OTHER -> ModelFieldFactory_new(cls, kwargs)

\* ------------------------------------------------------------------------
\* ormar/relations/querysetproxy.py
\* ------------------------------------------------------------------------
\* owners (parent model instances); there is one proxy per owner, with
\* proxy.relation._owner = the owner
Owners == {1, 2}
\* logical tasks (coroutines) that call the proxies
Tasks == {1, 2}
\* rows the child table / the through table may ever get
MaxChildren == 2
MaxThroughId == 3

VARIABLES
  fcall,        \* last field constructor call: [cls, kwargs]
  fout,         \* its outcome: error raised or descriptor namespace
  childTable,   \* primary keys of the rows of the child model's table
  through,      \* rows of the through model's table: [id, cols]
  nextThroughId,\* autoincrement counter of the through table
  attrs,        \* attrs[o][name]: attribute `name` of owner instance o
  queryset,     \* queryset[o]: proxy.queryset of owner o's proxy
  pc,           \* pc[t]: where task t is suspended
  task,         \* task[t]: the call task t is running, its locals and result
  lastResumed,  \* the task that was resumed most recently
  pre           \* tables and attributes as they were when the call began

vars == <<fcall, fout, childTable, through, nextThroughId, attrs, queryset,
          pc, task, lastResumed, pre>>
fieldVars == <<fcall, fout>>
proxyVars == <<childTable, through, nextThroughId, attrs, queryset,
               pc, task, lastResumed, pre>>

OwnerInst(o) == V("owner", o, 0)
ChildInst(pk) == V("child", pk, 0)
\* Model.get_name(): the lower-cased name of the instance's model class
get_name(inst) == inst.tag
\* owner.resolve_relation_name(owner, child): name of the owner's relation
\* attribute for the child's model type
resolve_relation_name(owner, child) == "rel_" \o get_name(child)
RelNames == {resolve_relation_name(OwnerInst(o), ChildInst(1)) : o \in Owners}

\* value of an awaited call / of a proxy method
Single(x) == [islist |-> FALSE, items |-> <<x>>]
List(xs) == [islist |-> TRUE, items |-> xs]
Nothing == [islist |-> FALSE, items |-> <<>>]

NoTask == [op |-> "none", owner |-> 0, arg |-> None, pending |-> Nothing,
           err |-> "none", ret |-> Nothing, raced |-> FALSE]
NoSnap == [valid |-> FALSE, childTable |-> {}, through |-> {},
           attrs |-> [o \in Owners |-> [n \in RelNames |-> None]],
           queryset |-> [o \in Owners |-> "None"]]

\* no field constructor was called
NoCall == [cls |-> "none", kwargs |-> NoDescriptor]
NotCalled == Raised("not called")

Init ==
  /\ fcall = NoCall
  /\ fout = NotCalled
  /\ childTable = {}
  /\ through = {}
  /\ nextThroughId = 1
  /\ attrs = [o \in Owners |-> [n \in RelNames |-> None]]
  /\ queryset = [o \in Owners |-> "None"]
  /\ pc = [t \in Tasks |-> "idle"]
  /\ task = [t \in Tasks |-> NoTask]
  /\ lastResumed = 0
  /\ pre = NoSnap

\* self.relation._owner's attribute is set to the child
_assign_child_to_parent(a, o, child) ==
  LET owner == OwnerInst(o)
      rel_name == resolve_relation_name(owner, child)
  IN  [a EXCEPT ![o][rel_name] = child]

RECURSIVE RegisterEach(_, _, _)
\* for subchild in child: self._assign_child_to_parent(subchild)
RegisterEach(a, o, items) ==
  IF items = <<>> THEN a
  ELSE RegisterEach(_assign_child_to_parent(a, o, Head(items)), o, Tail(items))

\* mutant: only the first element of a list is registered
_register_related_first(a, o, child) ==
  IF child.items = <<>> THEN a
  ELSE _assign_child_to_parent(a, o, child.items[1])

_register_related(a, o, child) ==
  IF child.islist
    THEN RegisterEach(a, o, child.items)
    ELSE _assign_child_to_parent(a, o, child.items[1])

\* mutant: the two values are bound to the wrong columns
ThroughKwargs_swapped(o, child) ==
  LET owner_column == get_name(OwnerInst(o))
      child_column == get_name(child)
  IN  [c \in {owner_column, child_column} |->
          IF c = child_column THEN OwnerInst(o) ELSE child]

\* kwargs = {owner_column: self.relation._owner, child_column: child}
ThroughKwargs(o, child) ==
  LET owner_column == get_name(OwnerInst(o))
      child_column == get_name(child)
  IN  [c \in {owner_column, child_column} |->
          IF c = child_column THEN child ELSE OwnerInst(o)]

\* mutant: the bulk delete is not filtered by the owner
ClearKwargs_all(o) == [c \in {} |-> OwnerInst(o)]

\* kwargs = {owner_column: self.relation._owner}
ClearKwargs(o) ==
  LET owner_column == get_name(OwnerInst(o))
  IN  [c \in {owner_column} |-> OwnerInst(o)]

\* rows selected by QuerySet.filter(**kwargs) / QuerySet.delete(**kwargs)
Matches(rows, kwargs) ==
  {r \in rows : \A k \in DOMAIN kwargs : k \in DOMAIN r.cols /\ r.cols[k] = kwargs[k]}

\* the instance of the through model loaded from row r
LinkInst(r) == V("through", r.id, 0)

Result(pending, err) == [pending |-> pending, err |-> err]

RECURSIVE Orderings(_)
\* the lists that hold every element of set S once
Orderings(S) ==
  IF S = {} THEN {<<>>}
  ELSE UNION {{<<x>> \o s : s \in Orderings(S \ {x})} : x \in S}

\* what the bound query-set (over the child model) can answer
QuerySet_first == {Result(Single(ChildInst(c)), "none") : c \in childTable}
                  \cup {Result(Nothing, "NoMatch")}
QuerySet_get == {Result(Single(ChildInst(c)), "none") : c \in childTable}
                \cup {Result(Nothing, "NoMatch")}
                \cup (IF Cardinality(childTable) >= 2
                        THEN {Result(Nothing, "MultipleMatches")} ELSE {})
QuerySet_all ==
  UNION {{Result(List(s), "none") : s \in Orderings({ChildInst(c) : c \in S})} :
            S \in SUBSET childTable}

\* tasks suspended in first() / get() / all()
ReadAwait == {"first_await", "get_await", "all_await"}

\* task t enters `op` on owner o's proxy and runs up to its first await
Started(t, op, o, arg, res) ==
  [task EXCEPT ![t] =
     [op |-> op, owner |-> o, arg |-> arg, pending |-> res.pending, err |-> res.err,
      ret |-> Nothing,
      raced |-> \E u \in Tasks \ {t} : pc[u] \in ReadAwait /\ task[u].owner = o]]

Snapshot(seq) ==
  IF seq THEN [valid |-> TRUE, childTable |-> childTable, through |-> through,
               attrs |-> attrs, queryset |-> queryset]
  ELSE NoSnap

\* `self.queryset.<method>` on a proxy nobody bound a query-set to
Unbound(t, seq, op, o) ==
  /\ queryset[o] = "None"
  /\ task' = Started(t, op, o, None, Result(Nothing, "AttributeError"))
  /\ pc' = [pc EXCEPT ![t] = "done"]
  /\ pre' = Snapshot(seq)
  /\ UNCHANGED <<childTable, through, nextThroughId, attrs, queryset, lastResumed>>

\* the external binder assigns proxy.queryset
BindQueryset(o, seq) ==
  /\ queryset[o] = "None"
  /\ seq => \A t \in Tasks : pc[t] = "idle"
  /\ queryset' = [queryset EXCEPT ![o] = "QuerySet"]
  /\ UNCHANGED <<fieldVars, childTable, through, nextThroughId, attrs, pc, task,
                 lastResumed, pre>>

\* first = await self.queryset.first(**kwargs)
first_call(t, seq, o) ==
  /\ pc[t] = "idle"
  /\ \/ Unbound(t, seq, "first", o)
     \/ /\ queryset[o] # "None"
        /\ \E res \in QuerySet_first : task' = Started(t, "first", o, None, res)
        /\ pc' = [pc EXCEPT ![t] = "first_await"]
        /\ pre' = Snapshot(seq)
        /\ UNCHANGED <<childTable, through, nextThroughId, attrs, queryset, lastResumed>>
  /\ UNCHANGED fieldVars

get_call(t, seq, o) ==
  /\ pc[t] = "idle"
  /\ \/ Unbound(t, seq, "get", o)
     \/ /\ queryset[o] # "None"
        /\ \E res \in QuerySet_get : task' = Started(t, "get", o, None, res)
        /\ pc' = [pc EXCEPT ![t] = "get_await"]
        /\ pre' = Snapshot(seq)
        /\ UNCHANGED <<childTable, through, nextThroughId, attrs, queryset, lastResumed>>
  /\ UNCHANGED fieldVars

all_call(t, seq, o) ==
  /\ pc[t] = "idle"
  /\ \/ Unbound(t, seq, "all", o)
     \/ /\ queryset[o] # "None"
        /\ \E res \in QuerySet_all : task' = Started(t, "all", o, None, res)
        /\ pc' = [pc EXCEPT ![t] = "all_await"]
        /\ pre' = Snapshot(seq)
        /\ UNCHANGED <<childTable, through, nextThroughId, attrs, queryset, lastResumed>>
  /\ UNCHANGED fieldVars

\* mutant: an attribute that is already set is not overwritten
Registered_keep(t, label) ==
  /\ pc[t] = label
  /\ lastResumed' = t
  /\ pc' = [pc EXCEPT ![t] = "done"]
  /\ IF task[t].err # "none"
       THEN UNCHANGED <<attrs, task>>
       ELSE /\ attrs' = IF \E n \in RelNames : attrs[task[t].owner][n] # None
                          THEN attrs
                          ELSE _register_related(attrs, task[t].owner, task[t].pending)
            /\ task' = [task EXCEPT ![t].ret = task[t].pending]
  /\ UNCHANGED <<fieldVars, childTable, through, nextThroughId, queryset, pre>>

\* the awaited query-set call of first() / get() / all() returns or raises;
\* self._register_related(result); return result
Registered(t, label) ==
  /\ pc[t] = label
  /\ lastResumed' = t
  /\ pc' = [pc EXCEPT ![t] = "done"]
  /\ IF task[t].err # "none"
       THEN UNCHANGED <<attrs, task>>
       ELSE /\ attrs' = _register_related(attrs, task[t].owner, task[t].pending)
            /\ task' = [task EXCEPT ![t].ret = task[t].pending]
  /\ UNCHANGED <<fieldVars, childTable, through, nextThroughId, queryset, pre>>

first_resume(t) == Registered(t, "first_await")
get_resume(t) == Registered(t, "get_await")
all_resume(t) == Registered(t, "all_await")

\* await queryset.create(**kwargs) on a fresh query-set over the through
\* model: the row is inserted, or the database refuses; gives the error
ThroughCreate(o, child, err) ==
  \/ /\ nextThroughId <= MaxThroughId
     /\ through' = through \cup {[id |-> nextThroughId, cols |-> ThroughKwargs(o, child)]}
     /\ nextThroughId' = nextThroughId + 1
     /\ err = "none"
  \/ /\ UNCHANGED <<through, nextThroughId>>
     /\ err = "DatabaseError"

\* create = await self.queryset.create(**kwargs)
create_call(t, seq, o) ==
  /\ pc[t] = "idle"
  /\ \/ Unbound(t, seq, "create", o)
     \/ /\ queryset[o] # "None"
        /\ \/ /\ Cardinality(childTable) < MaxChildren
              /\ LET pk == Cardinality(childTable) + 1
                 IN  /\ childTable' = childTable \cup {pk}
                     /\ task' = Started(t, "create", o, None,
                                        Result(Single(ChildInst(pk)), "none"))
           \/ /\ UNCHANGED childTable
              /\ task' = Started(t, "create", o, None, Result(Nothing, "DatabaseError"))
        /\ pc' = [pc EXCEPT ![t] = "create_await_child"]
        /\ pre' = Snapshot(seq)
        /\ UNCHANGED <<through, nextThroughId, attrs, queryset, lastResumed>>
  /\ UNCHANGED fieldVars

\* mutant: the child is registered only once its through-row exists
create_resume_child_late(t) ==
  /\ pc[t] = "create_await_child"
  /\ lastResumed' = t
  /\ IF task[t].err # "none"
       THEN /\ pc' = [pc EXCEPT ![t] = "done"]
            /\ UNCHANGED <<attrs, task, through, nextThroughId>>
       ELSE /\ \E err \in {"none", "DatabaseError"} :
                 /\ ThroughCreate(task[t].owner, task[t].pending.items[1], err)
                 /\ task' = [task EXCEPT ![t].err = err]
                 /\ attrs' = IF err # "none" THEN attrs
                             ELSE _register_related(attrs, task[t].owner, task[t].pending)
            /\ pc' = [pc EXCEPT ![t] = "create_await_through"]
  /\ UNCHANGED <<fieldVars, childTable, queryset, pre>>

\* self._register_related(create); await self.create_through_instance(create)
create_resume_child(t) ==
  /\ pc[t] = "create_await_child"
  /\ lastResumed' = t
  /\ IF task[t].err # "none"
       THEN /\ pc' = [pc EXCEPT ![t] = "done"]
            /\ UNCHANGED <<attrs, task, through, nextThroughId>>
       ELSE /\ attrs' = _register_related(attrs, task[t].owner, task[t].pending)
            /\ \E err \in {"none", "DatabaseError"} :
                 /\ ThroughCreate(task[t].owner, task[t].pending.items[1], err)
                 /\ task' = [task EXCEPT ![t].err = err]
            /\ pc' = [pc EXCEPT ![t] = "create_await_through"]
  /\ UNCHANGED <<fieldVars, childTable, queryset, pre>>

\* return create
create_resume_through(t) ==
  /\ pc[t] = "create_await_through"
  /\ lastResumed' = t
  /\ pc' = [pc EXCEPT ![t] = "done"]
  /\ task' = IF task[t].err # "none" THEN task
             ELSE [task EXCEPT ![t].ret = task[t].pending]
  /\ UNCHANGED <<fieldVars, childTable, through, nextThroughId, attrs, queryset, pre>>

\* await queryset.create(**kwargs), called on its own by the relation layer
create_through_instance_call(t, seq, o, child) ==
  /\ pc[t] = "idle"
  /\ \E err \in {"none", "DatabaseError"} :
       /\ ThroughCreate(o, child, err)
       /\ task' = Started(t, "create_through_instance", o, child, Result(Nothing, err))
  /\ pc' = [pc EXCEPT ![t] = "cti_await"]
  /\ pre' = Snapshot(seq)
  /\ UNCHANGED <<fieldVars, childTable, attrs, queryset, lastResumed>>

create_through_instance_resume(t) ==
  /\ pc[t] = "cti_await"
  /\ lastResumed' = t
  /\ pc' = [pc EXCEPT ![t] = "done"]
  /\ UNCHANGED <<fieldVars, childTable, through, nextThroughId, attrs, queryset, task, pre>>

\* link_instance = await queryset.filter(**kwargs).get()
Lookup(t, seq, o, child, kwargs) ==
  /\ pc[t] = "idle"
  /\ LET found == Matches(through, kwargs)
         res == IF found = {} THEN Result(Nothing, "NoMatch")
                ELSE IF Cardinality(found) > 1 THEN Result(Nothing, "MultipleMatches")
                ELSE Result(Single(LinkInst(CHOOSE r \in found : TRUE)), "none")
     IN  task' = Started(t, "delete_through_instance", o, child, res)
  /\ pc' = [pc EXCEPT ![t] = "dti_await_get"]
  /\ pre' = Snapshot(seq)
  /\ UNCHANGED <<fieldVars, childTable, through, nextThroughId, attrs, queryset, lastResumed>>

\* mutant: the row is looked up by the owner alone
delete_through_instance_call_owner(t, seq, o, child) ==
  Lookup(t, seq, o, child, ClearKwargs(o))

delete_through_instance_call(t, seq, o, child) ==
  Lookup(t, seq, o, child, ThroughKwargs(o, child))

\* await link_instance.delete()
delete_through_instance_resume_get(t) ==
  /\ pc[t] = "dti_await_get"
  /\ lastResumed' = t
  /\ IF task[t].err # "none"
       THEN /\ pc' = [pc EXCEPT ![t] = "done"]
            /\ UNCHANGED <<through, task>>
       ELSE /\ pc' = [pc EXCEPT ![t] = "dti_await_delete"]
            /\ \/ /\ through' = {r \in through : LinkInst(r) # task[t].pending.items[1]}
                  /\ UNCHANGED task
               \/ /\ UNCHANGED through
                  /\ task' = [task EXCEPT ![t].err = "DatabaseError"]
  /\ UNCHANGED <<fieldVars, childTable, nextThroughId, attrs, queryset, pre>>

delete_through_instance_resume_delete(t) ==
  /\ pc[t] = "dti_await_delete"
  /\ lastResumed' = t
  /\ pc' = [pc EXCEPT ![t] = "done"]
  /\ UNCHANGED <<fieldVars, childTable, through, nextThroughId, attrs, queryset, task, pre>>

\* mutant: clear also resets the owner's relation attribute
clear_call_reset(t, seq, o) ==
  /\ pc[t] = "idle"
  /\ LET found == Matches(through, ClearKwargs(o))
     IN  \/ /\ through' = through \ found
            /\ task' = Started(t, "clear", o, None,
                               Result(Single(PyInt(Cardinality(found))), "none"))
         \/ /\ UNCHANGED through
            /\ task' = Started(t, "clear", o, None, Result(Nothing, "DatabaseError"))
  /\ attrs' = [attrs EXCEPT ![o] = [n \in RelNames |-> None]]
  /\ pc' = [pc EXCEPT ![t] = "clear_await"]
  /\ pre' = Snapshot(seq)
  /\ UNCHANGED <<fieldVars, childTable, nextThroughId, queryset, lastResumed>>

\* return await queryset.delete(**kwargs)
clear_call(t, seq, o) ==
  /\ pc[t] = "idle"
  /\ LET found == Matches(through, ClearKwargs(o))
     IN  \/ /\ through' = through \ found
            /\ task' = Started(t, "clear", o, None,
                               Result(Single(PyInt(Cardinality(found))), "none"))
         \/ /\ UNCHANGED through
            /\ task' = Started(t, "clear", o, None, Result(Nothing, "DatabaseError"))
  /\ pc' = [pc EXCEPT ![t] = "clear_await"]
  /\ pre' = Snapshot(seq)
  /\ UNCHANGED <<fieldVars, childTable, nextThroughId, attrs, queryset, lastResumed>>

clear_resume(t) ==
  /\ pc[t] = "clear_await"
  /\ lastResumed' = t
  /\ pc' = [pc EXCEPT ![t] = "done"]
  /\ task' = IF task[t].err # "none" THEN task
             ELSE [task EXCEPT ![t].ret = task[t].pending]
  /\ UNCHANGED <<fieldVars, childTable, through, nextThroughId, attrs, queryset, pre>>

\* the caller takes the result (or the exception) of the finished call
Finish(t) ==
  /\ pc[t] = "done"
  /\ pc' = [pc EXCEPT ![t] = "idle"]
  /\ task' = [task EXCEPT ![t] = NoTask]
  /\ pre' = NoSnap
  /\ UNCHANGED <<fieldVars, childTable, through, nextThroughId, attrs, queryset, lastResumed>>

\* one step of task t in a query-set operation of a proxy of owners O;
\* seq: calls do not overlap
QueryStep(t, seq, O) ==
  \/ \E o \in O : first_call(t, seq, o)
  \/ \E o \in O : get_call(t, seq, o)
  \/ \E o \in O : all_call(t, seq, o)
  \/ \E o \in O : create_call(t, seq, o)
  \/ first_resume(t)
  \/ get_resume(t)
  \/ all_resume(t)
  \/ create_resume_child(t)
  \/ create_resume_through(t)
  \/ Finish(t)

\* one step of task t in a through-table operation
ThroughStep(t, seq, O) ==
  \/ \E o \in O, c \in childTable : create_through_instance_call(t, seq, o, ChildInst(c))
  \/ \E o \in O, c \in childTable : delete_through_instance_call(t, seq, o, ChildInst(c))
  \/ \E o \in O : clear_call(t, seq, o)
  \/ create_through_instance_resume(t)
  \/ delete_through_instance_resume_get(t)
  \/ delete_through_instance_resume_delete(t)
  \/ clear_resume(t)

\* one caller: every call returns before the next one begins
Next ==
  \/ \E o \in Owners : BindQueryset(o, TRUE)
  \/ QueryStep(1, TRUE, Owners)
  \/ ThroughStep(1, TRUE, Owners)

Spec == Init /\ [][Next]_vars

\* the owner whose proxy the concurrent tasks share
SharedOwner == {1}

\* the tasks share one proxy and interleave at the awaits
NextConc ==
  \/ \E o \in SharedOwner : BindQueryset(o, FALSE)
  \/ \E t \in Tasks : QueryStep(t, FALSE, SharedOwner)

SpecConc == Init /\ [][NextConc]_vars

\* ------------------------------------------------------------------------
\* Field construction
\* ------------------------------------------------------------------------
\* keyword values tried; Absent = the keyword is not passed
NullableChoices == {Absent, None, PyTrue, PyFalse}
DefaultChoices == {Absent, None, PyInt(0), PyStr(0), PyFalse}
ServerDefaultChoices == {Absent, PyStr(3)}
FlagChoices == {Absent, PyTrue, PyFalse}
LengthChoices == {Absent, None} \cup {PyInt(n) : n \in -1..MaxLen}
PrecisionChoices == {Absent, None} \cup {PyInt(n) : n \in -1..MaxPrec}

\* the keyword dictionary of a call: the keywords that were passed
Kwargs(choice) == [k \in {k \in DOMAIN choice : choice[k] # Absent} |-> choice[k]]

KwargsInputs ==
  { Kwargs([nullable |-> n, default |-> d, server_default |-> s, primary_key |-> p,
            autoincrement |-> a, max_length |-> m, precision |-> pr, scale |-> sc]) :
      n \in NullableChoices, d \in DefaultChoices, s \in ServerDefaultChoices,
      p \in FlagChoices, a \in FlagChoices, m \in LengthChoices,
      pr \in PrecisionChoices, sc \in PrecisionChoices }

\* a model definition is about to evaluate Kind(**kwargs)
InitField ==
  /\ fcall \in [cls : Kinds, kwargs : KwargsInputs]
  /\ fout = NotCalled
  /\ childTable = {}
  /\ through = {}
  /\ nextThroughId = 1
  /\ attrs = [o \in Owners |-> [n \in RelNames |-> None]]
  /\ queryset = [o \in Owners |-> "None"]
  /\ pc = [t \in Tasks |-> "idle"]
  /\ task = [t \in Tasks |-> NoTask]
  /\ lastResumed = 0
  /\ pre = NoSnap

\* Kind(**kwargs) is evaluated
Construct ==
  /\ fout = NotCalled
  /\ fout' = New(fcall.cls, fcall.kwargs)
  /\ UNCHANGED <<fcall, proxyVars>>

NextField == Construct

SpecField == InitField /\ [][NextField]_vars

\* ------------------------------------------------------------------------
\* Properties of the field constructors (under SpecField)
\* ------------------------------------------------------------------------
Passed(key) == key \in DOMAIN fcall.kwargs
Arg(key) == fcall.kwargs[key]
HasValue(key) == Passed(key) /\ Arg(key) # None

\* C1: the descriptor's nullable is the explicit nullable when one is given;
\* otherwise it is True iff default or server_default is not None, so that a
\* falsy default such as 0, "" or False still makes the field nullable
C1_NullableResolution ==
  fout.built =>
    fout.namespace["nullable"] =
      IF HasValue("nullable") THEN Arg("nullable")
      ELSE PyBool(HasValue("default") \/ HasValue("server_default"))

C1_Witness ==
  /\ fout.built
  /\ ~Passed("nullable") /\ ~Passed("server_default")
  /\ Passed("default") /\ Arg("default") = PyInt(0)
  /\ fout.namespace["nullable"] = PyTrue

MissingOrBelow(key, least) ==
  ~HasValue(key) \/ Arg(key).a < least

\* C2: ModelDefinitionError is raised exactly for a String whose max_length is
\* None or <= 0 and for a Decimal whose precision or scale is None or < 0;
\* when it is raised no descriptor has been built
C2_DefinitionError ==
  fout # NotCalled =>
    /\ fout.raised = "ModelDefinitionError" <=>
         \/ fcall.cls = "String" /\ MissingOrBelow("max_length", 1)
         \/ fcall.cls = "Decimal" /\ (MissingOrBelow("precision", 0) \/ MissingOrBelow("scale", 0))
    /\ fout.raised = "ModelDefinitionError" => ~fout.built /\ fout.namespace = NoDescriptor
    /\ fout.raised = "none" <=> fout.built

C2_Witness ==
  /\ fcall.cls = "String"
  /\ Passed("max_length") /\ Arg("max_length") = PyInt(0)
  /\ fout.raised = "ModelDefinitionError" /\ ~fout.built

\* C3: an Integer / BigInteger descriptor's autoincrement is the explicit
\* autoincrement when one is given and the value of primary_key (False when
\* that is omitted too) otherwise
C3_Autoincrement ==
  (fcall.cls \in {"Integer", "BigInteger"} /\ fout.built) =>
    fout.namespace["autoincrement"] =
      IF HasValue("autoincrement") THEN Arg("autoincrement")
      ELSE IF Passed("primary_key") THEN Arg("primary_key") ELSE PyFalse

C3_Witness ==
  /\ fcall.cls = "Integer" /\ fout.built
  /\ ~Passed("autoincrement")
  /\ Passed("primary_key") /\ Arg("primary_key") = PyTrue
  /\ fout.namespace["autoincrement"] = PyTrue

\* ------------------------------------------------------------------------
\* Properties of single proxy calls (under Spec: task 1 is the only caller)
\* ------------------------------------------------------------------------
Call == task[1]
Returned(op) == pc[1] = "done" /\ Call.op = op /\ Call.err = "none"
Failed(op) == pc[1] = "done" /\ Call.op = op /\ Call.err # "none"
\* through-rows that bind owner o and child instance c
Links(rows, o, c) ==
  {r \in rows : DOMAIN r.cols = {"owner", "child"}
                /\ r.cols["owner"] = OwnerInst(o) /\ r.cols["child"] = c}
\* through-rows of owner o
RowsOf(rows, o) ==
  {r \in rows : "owner" \in DOMAIN r.cols /\ r.cols["owner"] = OwnerInst(o)}
\* owner o's relation attribute for child instances
RelAttr(a, o) == a[o]["rel_child"]

\* C4: a create() that returns has added exactly one child row, the returned
\* child, and exactly one through-row, that binds the proxy's owner and the
\* returned child; every other row is as it was
C4_CreateAddsOneLink ==
  Returned("create") =>
    LET child == Call.ret.items[1]
    IN  /\ child.tag = "child"
        /\ child.a \notin pre.childTable
        /\ childTable = pre.childTable \cup {child.a}
        /\ pre.through \subseteq through
        /\ Cardinality(through \ pre.through) = 1
        /\ through \ pre.through = Links(through, Call.owner, child)

C4_Witness ==
  /\ Returned("create")
  /\ pre.through # {} /\ pre.childTable # {}
  /\ Cardinality(through) = Cardinality(pre.through) + 1

\* C5: a clear() that returns has removed every through-row of the proxy's
\* owner and no through-row of another owner, and returns how many it removed
C5_ClearScopedToOwner ==
  Returned("clear") =>
    /\ through = pre.through \ RowsOf(pre.through, Call.owner)
    /\ Call.ret = Single(PyInt(Cardinality(pre.through \ through)))

C5_Witness ==
  /\ Returned("clear")
  /\ Cardinality(pre.through \ through) > 1
  /\ through # {}

\* C6: after first() / get() the owner's relation attribute is the returned
\* child; after all() with more than one child it is the last child of the
\* list; the value returned is the query-set's answer
C6_Registration ==
  /\ (Returned("first") \/ Returned("get")) =>
        /\ Call.ret = Call.pending
        /\ ~Call.ret.islist /\ Len(Call.ret.items) = 1
        /\ RelAttr(attrs, Call.owner) = Call.ret.items[1]
  /\ Returned("all") =>
        /\ Call.ret = Call.pending
        /\ Len(Call.ret.items) > 1 =>
              RelAttr(attrs, Call.owner) = Call.ret.items[Len(Call.ret.items)]

C6_Witness ==
  /\ Returned("all")
  /\ Len(Call.ret.items) > 1
  /\ RelAttr(attrs, Call.owner) = Call.ret.items[Len(Call.ret.items)]
  /\ RelAttr(attrs, Call.owner) # Call.ret.items[1]
  /\ RelAttr(pre.attrs, Call.owner) # RelAttr(attrs, Call.owner)

\* C7: delete_through_instance(child) returns only if exactly one through-row
\* binds the owner and the child, and then exactly that row is gone; with no
\* or several such rows it fails with the lookup's error and removes nothing
C7_DeleteThroughInstance ==
  pc[1] = "done" /\ Call.op = "delete_through_instance" =>
    LET found == Links(pre.through, Call.owner, Call.arg)
    IN  /\ Call.err = "none" =>
              Cardinality(found) = 1 /\ through = pre.through \ found
        /\ found = {} => Call.err = "NoMatch" /\ through = pre.through
        /\ Cardinality(found) > 1 =>
              Call.err = "MultipleMatches" /\ through = pre.through

C7_Witness ==
  /\ Returned("delete_through_instance")
  /\ Cardinality(pre.through) > 1
  /\ Cardinality(through) = Cardinality(pre.through) - 1
  /\ RowsOf(through, Call.owner) # {}

\* C8: create registers the child before it creates the through-row and
\* undoes nothing: when the child was created and the through-row was not,
\* create fails, the child row is in the child table, the owner's relation
\* attribute is that child and no through-row binds owner and child
C8_CreateNoRollback ==
  /\ pc[1] = "create_await_through" =>
        /\ Call.pending.items[1].a \in childTable
        /\ RelAttr(attrs, Call.owner) = Call.pending.items[1]
  /\ (Failed("create") /\ Call.pending # Nothing) =>
        LET child == Call.pending.items[1]
        IN  /\ child.a \in childTable /\ child.a \notin pre.childTable
            /\ RelAttr(attrs, Call.owner) = child
            /\ Links(through, Call.owner, child) = {}
            /\ through = pre.through
            /\ Call.ret = Nothing

C8_Witness ==
  /\ Failed("create") /\ Call.pending # Nothing
  /\ RelAttr(attrs, Call.owner) = Call.pending.items[1]
  /\ RelAttr(pre.attrs, Call.owner) # Call.pending.items[1]
  /\ Call.pending.items[1].a \in childTable

\* C10: clear() leaves the child table, the owners' relation attributes and
\* the proxies' query-sets as they were: an owner's attribute may still be a
\* child whose row exists although no through-row binds the two any more
C10_ClearFrame ==
  (pc[1] = "done" /\ Call.op = "clear") =>
    /\ childTable = pre.childTable
    /\ attrs = pre.attrs
    /\ queryset = pre.queryset
    /\ Call.err = "none" =>
          \A c \in childTable : Links(through, Call.owner, ChildInst(c)) = {}

C10_Witness ==
  /\ Returned("clear")
  /\ RelAttr(attrs, Call.owner) # None
  /\ RelAttr(attrs, Call.owner).a \in childTable
  /\ Links(pre.through, Call.owner, RelAttr(attrs, Call.owner)) # {}
  /\ Links(through, Call.owner, RelAttr(attrs, Call.owner)) = {}

\* ------------------------------------------------------------------------
\* Concurrent tasks on one proxy (under SpecConc)
\* ------------------------------------------------------------------------
Reads == {"first", "get", "all"}
ReadReturned(t) == pc[t] = "done" /\ task[t].op \in Reads /\ task[t].err = "none"
LastOf(t) == task[t].ret.items[Len(task[t].ret.items)]

\* C9: with two tasks in first() / get() / all() on one proxy, every task
\* returns the answer of its own query, and the owner's relation attribute is
\* the last child of the task that was resumed last
C9_LastWriteWins ==
  /\ \A t \in Tasks : ReadReturned(t) => task[t].ret = task[t].pending
  /\ \A t \in Tasks :
       (lastResumed = t /\ ReadReturned(t) /\ task[t].ret.items # <<>>) =>
          RelAttr(attrs, task[t].owner) = LastOf(t)

C9_Witness ==
  /\ ReadReturned(1) /\ ReadReturned(2)
  /\ task[1].owner = task[2].owner
  /\ task[2].raced
  /\ lastResumed = 1
  /\ task[1].ret.items # <<>> /\ task[2].ret.items # <<>>
  /\ LastOf(1) # LastOf(2)
  /\ RelAttr(attrs, task[1].owner) = LastOf(1)

====
